---- MODULE Spec2Model ----
(***************************************************************************)
(* A state-machine model of change_cursor_id_pro.py: one run of main(),    *)
(* from path resolution to process exit, over an abstract file system.     *)
(* Program counters are named after the source line they stand at.         *)
(***************************************************************************)
EXTENDS Integers, Sequences, FiniteSets, TLC

\* ---------------------------------------------------------------- bounds
\* Clock readings are taken in ticks; TicksPerSecond ticks fall in one
\* second, so two different readings can format to the same timestamp.
TicksPerSecond == 2
\* The script file's content is a concatenation of at most MaxChunks chunks.
MaxChunks == 2

MaxClock == TicksPerSecond

\* ------------------------------------------------------- Python's None
Unset == "<unset>"
NoPath == <<>>
NoText == <<>>

\* ------------------------------------------------- text (character) data
\* Texts are sequences of one-character strings.

\* update_main_js, line 89: the pattern given to re.sub
MacPattern ==
  <<
    "i", "o", "r", "e", "g", " ", "-", "r", "d", "1", " ", "-", "c", " ", "I", "O",
    "P", "l", "a", "t", "f", "o", "r", "m", "E", "x", "p", "e", "r", "t", "D", "e",
    "v", "i", "c", "e" >>

\* update_main_js, line 90: the replacement template given to re.sub
MacReplacement ==
  <<
    "U", "U", "I", "D", "=", "$", "(", "u", "u", "i", "d", "g", "e", "n", " ", "|",
    " ", "t", "r", " ", "'", "[", ":", "u", "p", "p", "e", "r", ":", "]", "'", " ",
    "'", "[", ":", "l", "o", "w", "e", "r", ":", "]", "'", ")", ";", "e", "c", "h",
    "o", " ", "\\", "\"", "I", "O", "P", "l", "a", "t", "f", "o", "r", "m", "U", "U",
    "I", "D", " ", "=", " ", "\\", "\"", "$", "U", "U", "I", "D", "\\", "\"", ";" >>

\* update_main_js, line 110
MacSuccessMarker ==
  <<
    "U", "U", "I", "D", "=", "$", "(", "u", "u", "i", "d", "g", "e", "n", " ", "|",
    " ", "t", "r", " ", "'", "[", ":", "u", "p", "p", "e", "r", ":", "]", "'", " ",
    "'", "[", ":", "l", "o", "w", "e", "r", ":", "]", "'", ")", ";", "e", "c", "h",
    "o", " ", "\\", "\"", "I", "O", "P", "l", "a", "t", "f", "o", "r", "m", "U", "U",
    "I", "D", " ", "=", " ", "\\", "\"", "$", "U", "U", "I", "D", "\\", "\"", ";" >>

\* update_main_js, line 96
WinOldCmd ==
  <<
    "$", "{", "v", "5", "[", "s", "$", "(", ")", "]", "}", "\\", "\\", "R", "E", "G",
    ".", "e", "x", "e", " ", "Q", "U", "E", "R", "Y", " ", "H", "K", "E", "Y", "_",
    "L", "O", "C", "A", "L", "_", "M", "A", "C", "H", "I", "N", "E", "\\", "\\", "S",
    "O", "F", "T", "W", "A", "R", "E", "\\", "\\", "M", "i", "c", "r", "o", "s", "o",
    "f", "t", "\\", "\\", "C", "r", "y", "p", "t", "o", "g", "r", "a", "p", "h", "y",
    " ", "/", "v", " ", "M", "a", "c", "h", "i", "n", "e", "G", "u", "i", "d" >>

\* update_main_js, line 97
WinNewCmd ==
  <<
    "p", "o", "w", "e", "r", "s", "h", "e", "l", "l", " ", "-", "C", "o", "m", "m",
    "a", "n", "d", " ", "\"", "[", "g", "u", "i", "d", "]", ":", ":", "N", "e", "w",
    "G", "u", "i", "d", "(", ")", ".", "T", "o", "S", "t", "r", "i", "n", "g", "(",
    ")", ".", "T", "o", "L", "o", "w", "e", "r", "(", ")", "\"" >>

\* update_main_js, line 112
WinSuccessMarker ==
  <<
    "p", "o", "w", "e", "r", "s", "h", "e", "l", "l", " ", "-", "C", "o", "m", "m",
    "a", "n", "d", " ", "\"", "[", "g", "u", "i", "d", "]", ":", ":", "N", "e", "w",
    "G", "u", "i", "d", "(", ")", ".", "T", "o", "S", "t", "r", "i", "n", "g", "(",
    ")", ".", "T", "o", "L", "o", "w", "e", "r", "(", ")", "\"" >>

\* Pieces of script text used to build the script files of Init.
PatternHead ==
  <<
    "i", "o", "r", "e", "g", " ", "-", "r", "d", "1", " ", "-", "c", " ", "I", "O",
    "P", "l", "a", "t", "f", "o", "r", "m" >>

PatternTail ==
  <<
    "E", "x", "p", "e", "r", "t", "D", "e", "v", "i", "c", "e" >>

OtherText ==
  <<
    "e", "x", "e", "c", "(", "x", ")", ";" >>

\* `sub in s` for Python strings
Contains(s, sub) ==
  \E i \in 1..(Len(s) - Len(sub) + 1) : SubSeq(s, i, i + Len(sub) - 1) = sub

MatchAt(s, old, i) ==
  /\ i + Len(old) - 1 <= Len(s)
  /\ SubSeq(s, i, i + Len(old) - 1) = old

\* The first position from i on at which old occurs in s (str.find), 0 if
\* there is none
Find(s, old, i) ==
  LET hits == {j \in i..(Len(s) - Len(old) + 1) : MatchAt(s, old, j)}
  IN  IF hits = {} THEN 0 ELSE CHOOSE j \in hits : \A k \in hits : j <= k

\* Leftmost, non-overlapping replacement of every occurrence of the
\* non-empty text old in s from position i on (str.replace, and re.sub for
\* a pattern of literal characters): the text up to the next occurrence is
\* copied, the occurrence replaced, and the scan resumes behind it.
RECURSIVE ReplaceFrom(_, _, _, _)
ReplaceFrom(s, old, new, i) ==
  LET j == Find(s, old, i)
  IN  IF j = 0 THEN SubSeq(s, i, Len(s))
      ELSE SubSeq(s, i, j - 1) \o new \o ReplaceFrom(s, old, new, j + Len(old))

StrReplace(s, old, new) == ReplaceFrom(s, old, new, 1)

\* re.sub processes backslash escapes of the replacement template: "\\\\"
\* becomes one backslash, and an escape of a character that is neither a
\* letter nor a digit (the template's only escape is backslash-quote) is
\* left alone, backslash included.
RECURSIVE ExpandFrom(_, _)
ExpandFrom(t, i) ==
  LET j == Find(t, <<"\\">>, i)
  IN  IF j = 0 \/ j = Len(t) THEN SubSeq(t, i, Len(t))
      ELSE IF t[j + 1] = "\\"
           THEN SubSeq(t, i, j) \o ExpandFrom(t, j + 2)
           ELSE SubSeq(t, i, j + 1) \o ExpandFrom(t, j + 2)

\* Mutant of ExpandTemplate: every escape loses its backslash.
ExpandTemplateUnescaped(repl) == SelectSeq(repl, LAMBDA c : c # "\\")

ExpandTemplate(repl) == ExpandFrom(repl, 1)

\* re.sub(pattern, repl, string); the pattern of line 89 holds no regular-
\* expression metacharacter, so it matches itself and nothing else.
ReSub(pattern, repl, string) ==
  ReplaceFrom(string, pattern, ExpandTemplate(repl), 1)

\* ------------------------------------------------------------ JSON data
\* The text of a configuration file: a JSON object with its members in
\* textual order (a key may occur twice), some other JSON value, or text
\* that is not JSON at all.
ObjectText(members) == [kind |-> "object", members |-> members]
ArrayText == [kind |-> "array", members |-> <<>>]
InvalidText == [kind |-> "invalid", members |-> <<>>]

\* Python values held in `data`
NoData == [type |-> "unset", items |-> <<>>]
EmptyDict == [type |-> "dict", items |-> <<>>]

HasKey(items, k) == \E i \in 1..Len(items) : items[i][1] = k

\* data[k] = v on a dict: an existing key keeps its place, a new key is
\* appended.
DictSet(items, k, v) ==
  IF HasKey(items, k)
  THEN [i \in 1..Len(items) |-> IF items[i][1] = k THEN <<k, v>> ELSE items[i]]
  ELSE Append(items, <<k, v>>)

DictGet(items, k) == items[CHOOSE i \in 1..Len(items) : items[i][1] = k][2]

DictKeys(items) == {items[i][1] : i \in 1..Len(items)}

\* The dict json.load builds from the first n members of an object
RECURSIVE ObjectPairs(_, _)
ObjectPairs(members, n) ==
  IF n = 0 THEN <<>>
  ELSE DictSet(ObjectPairs(members, n - 1), members[n][1], members[n][2])

JsonValid(text) == text.kind # "invalid"

JsonLoad(text) ==
  IF text.kind = "object"
  THEN [type |-> "dict", items |-> ObjectPairs(text.members, Len(text.members))]
  ELSE [type |-> "list", items |-> <<>>]

JsonDump(data) == ObjectText(data.items)

\* ---------------------------------------------------------- identifiers
\* uuid.uuid4() values are abstract tokens; an identifier records how the
\* tokens are rendered.
NoneId == [fmt |-> "None", u |-> <<>>]
generate_random_id(a, b) == [fmt |-> "hex", u |-> <<a, b>>]
generate_uuid(a) == [fmt |-> "dashed", u |-> <<a>>]
SqmId(a) == [fmt |-> "braced_upper", u |-> <<a>>]
Number(n) == [fmt |-> "number", u |-> <<n>>]

\* The values the random source may deliver to the six uuid4() calls of a
\* run: all different, all equal, or alternating.
RngStreams ==
  { <<"u1", "u2", "u3", "u4", "u5", "u6">>,
    <<"u1", "u1", "u1", "u1", "u1", "u1">>,
    <<"u1", "u2", "u1", "u2", "u1", "u2">> }

TelemetryKeys ==
  { "telemetry.machineId", "telemetry.macMachineId",
    "telemetry.devDeviceId", "telemetry.sqmId" }

\* ---------------------------------------------------------------- paths
\* A path is the sequence of its segments.
Home == "~"
AppDataDir == "%APPDATA%"
LocalAppDataDir == "%LOCALAPPDATA%"

OsPathJoin(a, rest) == <<a>> \o rest
Dirname(path) == SubSeq(path, 1, Len(path) - 1)

Platforms == {"windows", "darwin", "linux"}

Returned(path) == [raised |-> "none", value |-> path]
Raised(type) == [raised |-> type, value |-> NoPath]

\* os.path.join(None, ...) raises TypeError
get_storage_path(system, environ) ==
  IF system = "windows"
  THEN IF environ.APPDATA = Unset
       THEN Raised("TypeError")
       ELSE Returned(OsPathJoin(environ.APPDATA,
                        <<"Cursor", "User", "globalStorage", "storage.json">>))
  ELSE IF system = "darwin"
  THEN Returned(OsPathJoin(Home,
          <<"Library", "Application Support", "Cursor", "User",
            "globalStorage", "storage.json">>))
  ELSE Returned(OsPathJoin(Home,
          <<".config", "Cursor", "User", "globalStorage", "storage.json">>))

get_main_js_path(system, environ) ==
  IF system = "darwin"
  THEN <<"/Applications", "Cursor.app", "Contents", "Resources", "app", "out",
         "main.js">>
  ELSE IF system = "windows"
  THEN IF environ.LOCALAPPDATA = Unset
       THEN NoPath
       ELSE OsPathJoin(environ.LOCALAPPDATA,
              <<"Programs", "cursor", "resources", "app", "out", "main.js">>)
  ELSE NoPath

\* datetime.now().strftime('%Y%m%d_%H%M%S') of a clock reading: the
\* timestamp has the resolution of one second.
Strftime(now) ==
  LET sec == now \div TicksPerSecond
  IN  "20240101_0000" \o (IF sec < 10 THEN "0" ELSE "") \o ToString(sec)

\* line 60
BackupPath(file_path, now) ==
  [file_path EXCEPT ![Len(file_path)] = @ \o ".backup_" \o Strftime(now)]

\* Mutant of Copy2: the file is moved instead of copied.
Copy2Moves(fs, src, dst) ==
  (dst :> fs[src]) @@ [p \in DOMAIN fs \ {src} |-> fs[p]]

\* shutil.copy2(src, dst) on the file system fs
Copy2(fs, src, dst) == (dst :> fs[src]) @@ fs

\* open(path, 'w') followed by a complete write of text
WriteFile(fs, path, text) == (path :> text) @@ fs

\* ---------------------------------------------------------------- state
VARIABLES
  system,        \* get_platform(): platform.system().lower()
  environ,       \* os.environ: APPDATA and LOCALAPPDATA
  rng,           \* the values the coming uuid.uuid4() calls will return
  clock,         \* the last reading of datetime.now(), in ticks
  files,         \* the file system: path -> content of each existing file
  dirs,          \* the existing directories
  files0,        \* the file system when the run started (never changed)
  pc,            \* the source line the run stands at
  storage_path,  \* main: storage_path
  ids,           \* main: machine_id, mac_machine_id, dev_device_id
  gen,           \* update_storage_file: the generated identifiers
  data,          \* update_storage_file: data
  main_js_path,  \* main: main_js_path
  content,       \* update_main_js: content
  new_content,   \* update_main_js: new_content
  patched,       \* the value update_main_js returned
  exc,           \* the exception in flight, if any
  out,           \* the lines print() has written
  trace,         \* the calls and file operations made so far
  exit_status    \* the process's exit status

envVars == <<system, environ, files0>>
usfVars == <<gen, data, rng>>
umjVars == <<main_js_path, content, new_content>>
vars ==
  <<system, environ, rng, clock, files, dirs, files0, pc, storage_path, ids,
    gen, data, main_js_path, content, new_content, patched, exc, out, trace,
    exit_status>>

NoExc == [type |-> "none", callee |-> "none"]
Exc(type, callee) == [type |-> type, callee |-> callee]
NoIds == <<NoneId, NoneId, NoneId>>
NoGen == [machine |-> NoneId, mac |-> NoneId, dev |-> NoneId, sqm |-> NoneId]
Ev(op, path, ok) == [op |-> op, path |-> path, ok |-> ok]
Line(tag, path, id) == [line |-> tag, path |-> path, id |-> id]
Printed(tag) == \E i \in 1..Len(out) : out[i].line = tag

\* ----------------------------------------------------------------- Init
NoFiles == [p \in {} |-> p]

\* Configuration files a run may find: a plain object, an object written
\* by an earlier run (a telemetry key present, a key repeated in the text),
\* a JSON value that is no object, and text that is no JSON.
ConfigTexts ==
  { ObjectText(<< <<"unrelated", Number("1")>> >>),
    ObjectText(<< <<"telemetry.machineId", generate_random_id("u0", "u0")>>,
                  <<"unrelated", Number("1")>>,
                  <<"theme", Number("7")>>,
                  <<"unrelated", Number("2")>> >>),
    ArrayText,
    InvalidText }

OlderConfigText == ObjectText(<< <<"unrelated", Number("0")>> >>)

Chunks(sys) ==
  IF sys = "darwin"
  THEN {MacPattern, MacSuccessMarker, PatternHead, PatternTail}
  ELSE {WinOldCmd, WinSuccessMarker, OtherText}

RECURSIVE Texts(_, _)
Texts(chunks, n) ==
  IF n = 0 THEN {<<>>}
  ELSE LET shorter == Texts(chunks, n - 1)
       IN  shorter \cup {t \o c : t \in shorter, c \in chunks}

ScriptTexts(sys) == Texts(Chunks(sys), MaxChunks)

\* The states of one target file: absent, present, or present next to a
\* backup an earlier run took of it within the current second.
TargetStates(path, texts, older) ==
  IF path = NoPath THEN {NoFiles}
  ELSE {NoFiles}
       \cup {path :> t : t \in texts}
       \cup {(path :> t) @@ (BackupPath(path, 0) :> older) : t \in texts}

Init ==
  /\ system \in Platforms
  /\ environ \in [APPDATA : IF system = "windows" THEN {Unset, AppDataDir} ELSE {Unset},
                  LOCALAPPDATA : IF system = "windows" THEN {Unset, LocalAppDataDir}
                                 ELSE {Unset}]
  /\ rng \in RngStreams
  /\ clock = 0
  /\ LET sp == get_storage_path(system, environ).value
         jp == get_main_js_path(system, environ)
     IN  \E cfg \in TargetStates(sp, ConfigTexts, OlderConfigText),
            js \in TargetStates(jp, ScriptTexts(system), OtherText) :
           /\ files = cfg @@ js
           /\ dirs \in IF sp = NoPath THEN {{}}
                       ELSE IF sp \in DOMAIN cfg THEN {{Dirname(sp)}}
                       ELSE {{}, {Dirname(sp)}}
  /\ files0 = files
  /\ pc = "main_165"
  /\ storage_path = NoPath
  /\ ids = NoIds
  /\ gen = NoGen
  /\ data = NoData
  /\ main_js_path = NoPath
  /\ content = NoText
  /\ new_content = NoText
  /\ patched = "unset"
  /\ exc = NoExc
  /\ out = <<>>
  /\ trace = <<>>
  /\ exit_status = -1

\* ------------------------------------------------------- control flow
\* main, lines 165-172: the step that follows the resolution of the path
MainAfterPath == "main_169"

\* Mutant of MainAfterIds: the return of line 176 is left out.
MainNeverReturnsEarly(ok) == "main_185"

\* main, lines 174-185: return when an identifier is missing
MainAfterIds(ok) == IF ok THEN "main_185" ELSE "exited"

\* Mutant of UmjAfterExists: the backup call of line 78 is left out.
UmjSkipsBackup == "umj_81"

\* update_main_js, lines 73-78: the step that follows the existence test
UmjAfterExists == "umj_78"

Exit(status) ==
  /\ pc' = "exited"
  /\ exit_status' = status

\* -------------------------------------------------------------- actions
\* main, lines 165-166
GetStoragePath ==
  /\ pc = "main_165"
  /\ LET r == get_storage_path(system, environ)
     IN  IF r.raised # "none"
         THEN /\ exc' = Exc(r.raised, "get_storage_path")
              /\ pc' = "main_191"
              /\ trace' = Append(trace, Ev("get_storage_path", NoPath, FALSE))
              /\ UNCHANGED <<storage_path, out>>
         ELSE /\ storage_path' = r.value
              /\ out' = Append(out, Line("config_path", r.value, NoneId))
              /\ trace' = Append(trace, Ev("get_storage_path", r.value, TRUE))
              /\ pc' = MainAfterPath
              /\ UNCHANGED exc
  /\ UNCHANGED <<envVars, usfVars, umjVars, clock, files, dirs, ids, patched,
                 exit_status>>

\* backup_file, lines 56-62, called from main's callee `callee`; the copy
\* may fail, and the OSError then leaves backup_file.
backup_file(file_path, callee, return_pc) ==
  IF file_path \notin DOMAIN files
  THEN /\ trace' = Append(trace, Ev("backup_file", file_path, TRUE))
       /\ pc' = return_pc
       /\ UNCHANGED <<files, clock, out, exc>>
  ELSE \E now \in clock..MaxClock :
         /\ clock' = now
         /\ \/ /\ files' = Copy2(files, file_path, BackupPath(file_path, now))
               /\ out' = Append(out, Line("backup_created",
                                          BackupPath(file_path, now), NoneId))
               /\ trace' = Append(trace, Ev("backup_file", file_path, TRUE))
               /\ pc' = return_pc
               /\ UNCHANGED exc
            \/ /\ exc' = Exc("OSError", callee)
               /\ trace' = Append(trace, Ev("backup_file", file_path, FALSE))
               /\ pc' = "main_191"
               /\ UNCHANGED <<files, out>>

\* main, line 169
BackupStorage ==
  /\ pc = "main_169"
  /\ backup_file(storage_path, "backup_file", "usf_129")
  /\ UNCHANGED <<envVars, usfVars, umjVars, dirs, storage_path, ids, patched,
                 exit_status>>

\* update_storage_file, lines 129-131: five uuid4() calls
UsfGenerate ==
  /\ pc = "usf_129"
  /\ gen' = [machine |-> generate_random_id(rng[1], rng[2]),
             mac |-> generate_random_id(rng[3], rng[4]),
             dev |-> generate_uuid(rng[5]),
             sqm |-> NoneId]
  /\ rng' = SubSeq(rng, 6, Len(rng))
  /\ trace' = Append(trace, Ev("update_storage_file", storage_path, TRUE))
  /\ pc' = "usf_134"
  /\ UNCHANGED <<envVars, umjVars, clock, files, dirs, storage_path, ids, data,
                 patched, exc, out, exit_status>>

\* update_storage_file, line 134, and ensure_dir_exists, lines 65-68: the
\* call stands before the try statement, so an OSError of os.makedirs
\* leaves update_storage_file.
UsfEnsureDir ==
  /\ pc = "usf_134"
  /\ LET dir == Dirname(storage_path)
     IN  IF dir \in dirs
         THEN /\ pc' = "usf_138"
              /\ UNCHANGED <<dirs, exc, trace>>
         ELSE \/ /\ dirs' = dirs \cup {dir}
                 /\ trace' = Append(trace, Ev("makedirs", dir, TRUE))
                 /\ pc' = "usf_138"
                 /\ UNCHANGED exc
              \/ /\ exc' = Exc("OSError", "update_storage_file")
                 /\ trace' = Append(trace, Ev("makedirs", dir, FALSE))
                 /\ pc' = "main_191"
                 /\ UNCHANGED dirs
  /\ UNCHANGED <<envVars, usfVars, umjVars, clock, files, storage_path, ids,
                 patched, out, exit_status>>

\* update_storage_file, lines 156-158: the except clause
UsfFailed ==
  /\ out' = Append(out, Line("storage_error", storage_path, NoneId))
  /\ ids' = NoIds
  /\ pc' = "main_174"

\* update_storage_file, lines 138-142
UsfLoad ==
  /\ pc = "usf_138"
  /\ IF storage_path \in DOMAIN files
     THEN \/ /\ JsonValid(files[storage_path])
             /\ data' = JsonLoad(files[storage_path])
             /\ trace' = Append(trace, Ev("read", storage_path, TRUE))
             /\ pc' = "usf_145"
             /\ UNCHANGED <<out, ids>>
          \/ /\ ~JsonValid(files[storage_path])
             /\ trace' = Append(trace, Ev("read", storage_path, TRUE))
             /\ UsfFailed
             /\ UNCHANGED data
          \/ /\ trace' = Append(trace, Ev("read", storage_path, FALSE))
             /\ UsfFailed
             /\ UNCHANGED data
     ELSE /\ data' = EmptyDict
          /\ pc' = "usf_145"
          /\ UNCHANGED <<out, ids, trace>>
  /\ UNCHANGED <<envVars, umjVars, gen, rng, clock, files, dirs, storage_path,
                 patched, exc, exit_status>>

\* Mutant of AssignIds: the identifiers are put into a new dict instead of
\* the loaded one.
AssignIdsToEmpty(items, g) ==
  << <<"telemetry.machineId", g.machine>>,
     <<"telemetry.macMachineId", g.mac>>,
     <<"telemetry.devDeviceId", g.dev>>,
     <<"telemetry.sqmId", g.sqm>> >>

\* update_storage_file, lines 145-148
AssignIds(items, g) ==
  DictSet(DictSet(DictSet(DictSet(items,
    "telemetry.machineId", g.machine),
    "telemetry.macMachineId", g.mac),
    "telemetry.devDeviceId", g.dev),
    "telemetry.sqmId", g.sqm)

\* update_storage_file, lines 145-158: item assignment on a value that is
\* no dict raises TypeError, which the except clause does not name; a
\* failed write leaves the file as it was or truncated.
UsfUpdate ==
  /\ pc = "usf_145"
  /\ IF data.type # "dict"
     THEN /\ exc' = Exc("TypeError", "update_storage_file")
          /\ pc' = "main_191"
          /\ UNCHANGED <<gen, rng, data, files, ids, out, trace>>
     ELSE LET g == [gen EXCEPT !.sqm = SqmId(rng[1])]
              d == [type |-> "dict", items |-> AssignIds(data.items, g)]
          IN  /\ gen' = g
              /\ rng' = Tail(rng)
              /\ data' = d
              /\ UNCHANGED exc
              /\ \/ /\ files' = WriteFile(files, storage_path, JsonDump(d))
                    /\ trace' = Append(trace, Ev("write", storage_path, TRUE))
                    /\ ids' = <<g.machine, g.mac, g.dev>>
                    /\ pc' = "main_174"
                    /\ UNCHANGED out
                 \/ /\ files' \in {files, WriteFile(files, storage_path, InvalidText)}
                    /\ trace' = Append(trace, Ev("write", storage_path, FALSE))
                    /\ UsfFailed
  /\ UNCHANGED <<envVars, umjVars, clock, dirs, storage_path, patched,
                 exit_status>>

\* main, lines 172-182
MainCheckIds ==
  /\ pc = "main_174"
  /\ LET ok == \A i \in 1..3 : ids[i] # NoneId
     IN  /\ IF ok
            THEN /\ out' = out \o << Line("ids_header", NoPath, NoneId),
                                     Line("machineId", NoPath, ids[1]),
                                     Line("macMachineId", NoPath, ids[2]),
                                     Line("devDeviceId", NoPath, ids[3]) >>
                 /\ trace' = Append(trace, Ev("report_ids", NoPath, TRUE))
            ELSE /\ out' = Append(out, Line("update_failed", NoPath, NoneId))
                 /\ UNCHANGED trace
         /\ pc' = MainAfterIds(ok)
         /\ exit_status' = IF MainAfterIds(ok) = "exited" THEN 0 ELSE exit_status
  /\ UNCHANGED <<envVars, usfVars, umjVars, clock, files, dirs, storage_path,
                 ids, patched, exc>>

\* main, lines 185-189
MainPatchGate ==
  /\ pc = "main_185"
  /\ IF system \in {"darwin", "windows"}
     THEN LET path == get_main_js_path(system, environ)
          IN  /\ main_js_path' = path
              /\ trace' = Append(trace, Ev("get_main_js_path", path, TRUE))
              /\ IF path # NoPath
                 THEN pc' = "umj_73" /\ UNCHANGED exit_status
                 ELSE Exit(0)
     ELSE /\ Exit(0)
          /\ UNCHANGED <<main_js_path, trace>>
  /\ UNCHANGED <<envVars, usfVars, content, new_content, clock, files, dirs,
                 storage_path, ids, patched, exc, out>>

\* update_main_js returns to main, which returns; the process exits with
\* status 0.
UmjReturn(value) ==
  /\ patched' = value
  /\ Exit(0)

\* update_main_js, lines 73-75
UmjExists ==
  /\ pc = "umj_73"
  /\ IF main_js_path \notin DOMAIN files
     THEN /\ out' = Append(out, Line("main_js_missing", main_js_path, NoneId))
          /\ trace' = Append(trace, Ev("update_main_js", main_js_path, FALSE))
          /\ UmjReturn("False")
     ELSE /\ trace' = Append(trace, Ev("update_main_js", main_js_path, TRUE))
          /\ pc' = UmjAfterExists
          /\ UNCHANGED <<out, patched, exit_status>>
  /\ UNCHANGED <<envVars, usfVars, umjVars, clock, files, dirs, storage_path,
                 ids, exc>>

\* update_main_js, line 78: the call stands before the try statement
UmjBackup ==
  /\ pc = "umj_78"
  /\ backup_file(main_js_path, "update_main_js", "umj_81")
  /\ UNCHANGED <<envVars, usfVars, umjVars, dirs, storage_path, ids, patched,
                 exit_status>>

\* update_main_js, lines 81-82
UmjRead ==
  /\ pc = "umj_81"
  /\ \/ /\ content' = files[main_js_path]
        /\ trace' = Append(trace, Ev("read", main_js_path, TRUE))
        /\ pc' = "umj_84"
     \/ /\ trace' = Append(trace, Ev("read", main_js_path, FALSE))
        /\ pc' = "umj_121"
        /\ UNCHANGED content
  /\ UNCHANGED <<envVars, usfVars, main_js_path, new_content, clock, files,
                 dirs, storage_path, ids, patched, exc, out, exit_status>>

\* update_main_js, lines 84-102
UmjSubstitute ==
  /\ pc = "umj_84"
  /\ IF system = "darwin"
     THEN /\ new_content' = ReSub(MacPattern, MacReplacement, content)
          /\ pc' = "umj_105"
          /\ UNCHANGED <<out, patched, exit_status>>
     ELSE IF system = "windows"
     THEN /\ new_content' = StrReplace(content, WinOldCmd, WinNewCmd)
          /\ pc' = "umj_105"
          /\ UNCHANGED <<out, patched, exit_status>>
     ELSE /\ out' = Append(out, Line("unsupported_platform", NoPath, NoneId))
          /\ UmjReturn("False")
          /\ UNCHANGED new_content
  /\ UNCHANGED <<envVars, usfVars, main_js_path, content, clock, files, dirs,
                 storage_path, ids, exc, trace>>

\* update_main_js, lines 105-106: a failed write leaves the file as it was
\* or truncated.
UmjWrite ==
  /\ pc = "umj_105"
  /\ \/ /\ files' = WriteFile(files, main_js_path, new_content)
        /\ trace' = Append(trace, Ev("write", main_js_path, TRUE))
        /\ pc' = "umj_109"
     \/ /\ files' \in {files, WriteFile(files, main_js_path, NoText)}
        /\ trace' = Append(trace, Ev("write", main_js_path, FALSE))
        /\ pc' = "umj_121"
  /\ UNCHANGED <<envVars, usfVars, umjVars, clock, dirs, storage_path, ids,
                 patched, exc, out, exit_status>>

\* update_main_js, lines 109-112
SuccessMarker(sys) ==
  IF sys = "darwin" THEN MacSuccessMarker ELSE WinSuccessMarker

\* Mutant of Verified: the check looks for the absence of the old command
\* instead of the presence of the new one.
VerifiedByAbsence(sys, text) ==
  ~Contains(text, IF sys = "darwin" THEN MacPattern ELSE WinOldCmd)

\* update_main_js, line 114
Verified(sys, text) == Contains(text, SuccessMarker(sys))

\* update_main_js, lines 109-119
UmjVerify ==
  /\ pc = "umj_109"
  /\ IF Verified(system, new_content)
     THEN /\ out' = Append(out, Line("main_js_patched", NoPath, NoneId))
          /\ UmjReturn("True")
     ELSE /\ out' = Append(out, Line("main_js_unverified", main_js_path, NoneId))
          /\ UmjReturn("False")
  /\ UNCHANGED <<envVars, usfVars, umjVars, clock, files, dirs, storage_path,
                 ids, exc, trace>>

\* update_main_js, lines 121-123
UmjExcept ==
  /\ pc = "umj_121"
  /\ out' = Append(out, Line("main_js_error", NoPath, NoneId))
  /\ UmjReturn("False")
  /\ UNCHANGED <<envVars, usfVars, umjVars, clock, files, dirs, storage_path,
                 ids, exc, trace>>

\* main, lines 191-193: the module never imports sys (lines 4-10), so the
\* evaluation of sys.stderr raises NameError before print is called; the
\* NameError leaves main uncaught and the interpreter ends the process
\* with status 1.
MainExcept ==
  /\ pc = "main_191"
  /\ exc' = Exc("NameError", "main")
  /\ trace' = Append(trace, Ev("handler", NoPath, FALSE))
  /\ Exit(1)
  /\ UNCHANGED <<envVars, usfVars, umjVars, clock, files, dirs, storage_path,
                 ids, patched, out>>

Next ==
  \/ GetStoragePath
  \/ BackupStorage
  \/ UsfGenerate
  \/ UsfEnsureDir
  \/ UsfLoad
  \/ UsfUpdate
  \/ MainCheckIds
  \/ MainPatchGate
  \/ UmjExists
  \/ UmjBackup
  \/ UmjRead
  \/ UmjSubstitute
  \/ UmjWrite
  \/ UmjVerify
  \/ UmjExcept
  \/ MainExcept

Spec == Init /\ [][Next]_vars

\* ------------------------------------------------------------ properties
Traced(op) == \E i \in 1..Len(trace) : trace[i].op = op

IsScriptEvent(e) ==
  \/ e.op \in {"get_main_js_path", "update_main_js"}
  \/ e.path # NoPath /\ e.path[Len(e.path)] = "main.js"

\* update_main_js went past its existence test, and no backup, read or
\* write of the script file failed
UmjRanClean ==
  /\ pc = "exited"
  /\ \E i \in 1..Len(trace) : trace[i] = Ev("update_main_js", main_js_path, TRUE)
  /\ \A i \in 1..Len(trace) : IsScriptEvent(trace[i]) => trace[i].ok

SearchPattern(sys) == IF sys = "darwin" THEN MacPattern ELSE WinOldCmd

\* C1: every write to a target file that existed before the write comes
\* after a backup_file call on the same path, earlier in the same run.
WriteComesAfterBackup ==
  \A i \in 1..Len(trace) :
    (trace[i].op = "write" /\ trace[i].path \in DOMAIN files0)
      => \E j \in 1..(i - 1) :
           trace[j].op = "backup_file" /\ trace[j].path = trace[i].path

\* C1 witness: both targets existed and both were written.
BothTargetsWritten ==
  /\ storage_path \in DOMAIN files0
  /\ main_js_path \in DOMAIN files0
  /\ \E i \in 1..Len(trace) : trace[i] = Ev("write", storage_path, TRUE)
  /\ \E i \in 1..Len(trace) : trace[i] = Ev("write", main_js_path, TRUE)

UpdateReturnedIds == pc = "main_174" /\ ids # NoIds

ItemsBefore ==
  IF storage_path \in DOMAIN files0
  THEN JsonLoad(files0[storage_path]).items
  ELSE <<>>

\* C2: after a successful update_storage_file the file holds a JSON object
\* whose keys are those of the previous document plus the four telemetry
\* keys, every other key has its previous value, the four telemetry keys
\* hold the generated values, and the three returned identifiers are the
\* generated ones.
UpdateKeepsOtherKeys ==
  UpdateReturnedIds =>
    /\ JsonValid(files[storage_path])
    /\ files[storage_path].kind = "object"
    /\ LET after == JsonLoad(files[storage_path]).items
       IN  /\ DictKeys(after) = DictKeys(ItemsBefore) \cup TelemetryKeys
           /\ Len(after) = Cardinality(DictKeys(after))
           /\ \A k \in DictKeys(ItemsBefore) \ TelemetryKeys :
                DictGet(after, k) = DictGet(ItemsBefore, k)
           /\ DictGet(after, "telemetry.machineId") = gen.machine
           /\ DictGet(after, "telemetry.macMachineId") = gen.mac
           /\ DictGet(after, "telemetry.devDeviceId") = gen.dev
           /\ DictGet(after, "telemetry.sqmId") = gen.sqm
           /\ gen.machine.fmt = "hex" /\ gen.mac.fmt = "hex"
           /\ gen.dev.fmt = "dashed" /\ gen.sqm.fmt = "braced_upper"
           /\ ids = <<gen.machine, gen.mac, gen.dev>>

\* C2 witness: the update succeeded on a document that held a telemetry
\* key and other keys.
UpdatedExistingDocument ==
  /\ UpdateReturnedIds
  /\ storage_path \in DOMAIN files0
  /\ "telemetry.machineId" \in DictKeys(ItemsBefore)
  /\ "theme" \in DictKeys(ItemsBefore)

\* C3: update_storage_file never raises an exception to its caller.
UpdateNeverRaises == exc.callee # "update_storage_file"

\* C4: neither path resolver raises when its environment variable is
\* absent, and main then skips the dependent action and exits with
\* status 0.
ResolutionNeverRaises ==
  /\ exc.callee # "get_storage_path"
  /\ (pc = "exited" /\ system = "windows" /\ environ.LOCALAPPDATA = Unset
        /\ Traced("get_main_js_path"))
       => (main_js_path = NoPath /\ exit_status = 0 /\ ~Traced("update_main_js"))

BackupCall ==
  /\ Len(trace') = Len(trace) + 1
  /\ trace'[Len(trace')].op = "backup_file"

BackupArg == trace'[Len(trace')].path

NewFiles == DOMAIN files' \ DOMAIN files

\* C5 as claimed: a backup_file call on an existing path that returns
\* produces exactly one new file, holding the content of the path; a call
\* on a path that does not exist produces no file and raises nothing.
BackupMakesOneNewFile ==
  [][BackupCall =>
       IF BackupArg \in DOMAIN files
       THEN exc' = NoExc =>
              /\ Cardinality(NewFiles) = 1
              /\ \A q \in NewFiles : files'[q] = files[BackupArg]
       ELSE files' = files /\ exc' = NoExc]_vars

\* C5, amended: a backup_file call on an existing path that returns leaves
\* the file <path>.backup_<timestamp> holding the content of the path and
\* every other file as it was; that file is new unless a backup of the path
\* taken within the same second existed, which is overwritten. A call on a
\* path that does not exist changes no file and raises nothing.
BackupCopiesContent ==
  [][BackupCall =>
       IF BackupArg \in DOMAIN files
       THEN exc' = NoExc =>
              LET bp == BackupPath(BackupArg, clock')
              IN  /\ DOMAIN files' = DOMAIN files \cup {bp}
                  /\ files'[bp] = files[BackupArg]
                  /\ \A q \in DOMAIN files \ {bp} : files'[q] = files[q]
                  /\ Cardinality(NewFiles) = IF bp \in DOMAIN files THEN 0 ELSE 1
       ELSE files' = files /\ exc' = NoExc]_vars

\* C5 witness: the configuration file was backed up at a later clock
\* reading of the second in which an earlier backup was taken, and the
\* earlier backup was overwritten.
BackupOverwroteEarlier ==
  /\ pc = "usf_129"
  /\ clock > 0
  /\ storage_path \in DOMAIN files0
  /\ BackupPath(storage_path, clock) \in DOMAIN files0
  /\ files0[BackupPath(storage_path, clock)] # files0[storage_path]
  /\ files[BackupPath(storage_path, clock)] = files0[storage_path]

ScriptBefore == files0[main_js_path]

Occurrences(s) == {i \in 1..Len(s) : MatchAt(s, MacPattern, i)}

\* w is s with the text new in place of every occurrence of the macOS
\* fragment and every other character kept, in order
FragmentsReplaced(s, w, new) ==
  LET occ == Occurrences(s)
      delta == Len(new) - Len(MacPattern)
      Shift(j) == j + delta * Cardinality({o \in occ : o < j})
      InFragment(j) == \E o \in occ : o <= j /\ j < o + Len(MacPattern)
  IN  /\ Len(w) = Len(s) + delta * Cardinality(occ)
      /\ \A o \in occ : SubSeq(w, Shift(o), Shift(o) + Len(new) - 1) = new
      /\ \A j \in 1..Len(s) : ~InFragment(j) => w[Shift(j)] = s[j]

\* C7: on macOS, update_main_js on an existing script that holds the
\* fragment 'ioreg -rd1 -c IOPlatformExpertDevice' (the backup, the read and
\* the write succeeding) writes a content without the fragment, with the
\* 'UUID=$(uuidgen ...' text in place of each occurrence and all other text
\* unchanged, prints success and returns True.
MacFragmentReplaced ==
  (UmjRanClean /\ system = "darwin" /\ Contains(ScriptBefore, MacPattern))
    => /\ \E i \in 1..Len(trace) : trace[i] = Ev("write", main_js_path, TRUE)
       /\ ~Contains(files[main_js_path], MacPattern)
       /\ Contains(files[main_js_path], MacSuccessMarker)
       /\ FragmentsReplaced(ScriptBefore, files[main_js_path], MacSuccessMarker)
       /\ patched = "True"
       /\ Printed("main_js_patched")

\* C7 witness: a script with two occurrences of the fragment was patched.
TwoFragmentsPatched ==
  /\ UmjRanClean
  /\ system = "darwin"
  /\ Cardinality(Occurrences(ScriptBefore)) = 2

\* The place of an event in the sequence of main
Rank(e) ==
  IF e.op = "get_storage_path" THEN 1
  ELSE IF e.op = "handler" THEN 6
  ELSE IF IsScriptEvent(e) THEN 5
  ELSE IF e.op = "report_ids" THEN 4
  ELSE IF e.op = "backup_file" THEN 2
  ELSE 3

IsScriptFile(p) == p # NoPath /\ Len(p) > 1 /\ p[Len(p) - 1] = "out"

\* C8: the steps of main occur in the order resolve, back up, update,
\* report, patch, none of them twice; the script file is backed up, read or
\* written only after the update returned identifiers and they were
\* reported, on macOS or Windows, with a resolved script path; when the
\* update fails the run ends and the script file and its backups are as
\* they were; and from the report on the configuration file holds what the
\* update wrote.
MainRunsInOrder ==
  /\ \A i, j \in 1..Len(trace) :
       i < j => /\ Rank(trace[i]) <= Rank(trace[j])
                /\ ~(trace[i].op = trace[j].op /\ trace[i].path = trace[j].path)
  /\ Traced("report_ids") =>
       /\ ids # NoIds
       /\ files[storage_path] = JsonDump(data)
       /\ DictGet(JsonLoad(files[storage_path]).items, "telemetry.machineId") = ids[1]
  /\ \A i \in 1..Len(trace) :
       (IsScriptEvent(trace[i]) /\ trace[i].op # "get_main_js_path")
         => /\ Traced("report_ids")
            /\ system \in {"darwin", "windows"}
            /\ main_js_path # NoPath
            /\ trace[i].path = main_js_path
  /\ ~Traced("report_ids") =>
       /\ \A p \in DOMAIN files \cup DOMAIN files0 :
            IsScriptFile(p) => p \in DOMAIN files /\ p \in DOMAIN files0
                               /\ files[p] = files0[p]
       /\ patched = "unset"
  /\ Printed("update_failed") => pc = "exited" /\ exit_status = 0

\* C8 witness: a run that backed up and updated the configuration file,
\* reported, and patched the script.
FullRunPatched ==
  /\ pc = "exited"
  /\ patched = "True"
  /\ storage_path \in DOMAIN files0
  /\ files[main_js_path] # files0[main_js_path]

\* C9: at the end of a run that raised nothing, every backup_file call has
\* a printed line about that file (made or skipped), and a run that
\* reported identifiers has a printed line about the script step (patched,
\* warning, error, file missing, path not resolvable or platform
\* unsupported).
EveryOutcomeAnnounced ==
  (pc = "exited" /\ exit_status = 0) =>
    /\ \A i \in 1..Len(trace) :
         trace[i].op = "backup_file" =>
           \E k \in 1..Len(out) :
             /\ out[k].line \in {"backup_created", "backup_skipped"}
             /\ Dirname(out[k].path) = Dirname(trace[i].path)
    /\ Traced("report_ids") =>
         \E k \in 1..Len(out) :
           out[k].line \in {"main_js_patched", "main_js_unverified",
                            "main_js_error", "main_js_missing",
                            "main_js_no_path", "unsupported_platform"}

\* C10: when an exception reached main's handler, the handler printed the
\* error and the process exited with a non-zero status; when none did and
\* the update succeeded, the process exited with status 0 after printing
\* the three identifiers.
HandlerPrintsAndExits ==
  pc = "exited" =>
    /\ Traced("handler") => (Printed("error") /\ exit_status # 0)
    /\ (~Traced("handler") /\ ids # NoIds) =>
         /\ exit_status = 0
         /\ \E k \in 1..Len(out) : out[k] = Line("machineId", NoPath, ids[1])
         /\ \E k \in 1..Len(out) : out[k] = Line("macMachineId", NoPath, ids[2])
         /\ \E k \in 1..Len(out) : out[k] = Line("devDeviceId", NoPath, ids[3])

====
